---------------------------- MODULE Spec2Model ----------------------------
(***************************************************************************)
(* Model of the advanced password generator (src/2)pass_generator.py).     *)
(*                                                                         *)
(* A Python string is a sequence of code points.  The module-level         *)
(* functions (build_charset, calculate_entropy_bits, strength_label,       *)
(* generate_single_password) are operators; the Tk application             *)
(* (AdvancedPasswordGenerator) is a state machine with one action per      *)
(* event handler.                                                          *)
(*                                                                         *)
(*   Spec      the application: the user's events on the form              *)
(*   SpecCore  the module-level functions called with arbitrary arguments  *)
(***************************************************************************)
EXTENDS Integers, Sequences, FiniteSets, TLC

VARIABLES
    length_var,        \* tk.IntVar, the Length spinbox
    count_var,         \* tk.IntVar, the Count spinbox
    use_lower,         \* tk.BooleanVar
    use_upper,         \* tk.BooleanVar
    use_digits,        \* tk.BooleanVar
    use_symbols,       \* tk.BooleanVar
    require_each,      \* tk.BooleanVar
    avoid_ambiguous,   \* tk.BooleanVar
    last_charset,      \* self.last_charset
    entropy_label,     \* what self.entropy_label shows
    pw_listbox,        \* the items of self.pw_listbox
    handled,           \* the last event handler run and how it ended
    call               \* SpecCore: the last call of a module-level function

gui_vars == <<length_var, count_var, use_lower, use_upper, use_digits,
              use_symbols, require_each, avoid_ambiguous, last_charset,
              entropy_label, pw_listbox, handled>>

vars == <<length_var, count_var, use_lower, use_upper, use_digits,
          use_symbols, require_each, avoid_ambiguous, last_charset,
          entropy_label, pw_listbox, handled, call>>

---------------------------------------------------------------------------
(* Bounds of the model *)

\* longest password requested of generate_single_password in SpecCore
MaxLen == 3
\* longest caller-supplied alphabet in SpecCore
MaxAlpha == 2
\* most (name, chars) pairs in a caller-supplied classes list in SpecCore
MaxClasses == 2
\* the random source draws every number below n for n <= MaxPick, and only
\* 0 for a larger n
MaxPick == 3
\* largest charset_len and length given to calculate_entropy_bits in SpecCore
MaxSize == 16
\* fixed-point resolution of a float number of bits: units per bit
Resolution == 3
\* largest number of bits given to strength_label in SpecCore
MaxBits == 90
\* the form: valid lengths are MIN_LENGTH .. MIN_LENGTH + ExtraLen
ExtraLen == 0
\* the form: valid counts are MIN_COUNT .. MaxCount
MaxCount == 2

---------------------------------------------------------------------------
(* Python strings and the string module *)

Range(seq) == {seq[i] : i \in 1..Len(seq)}

\* ch in s
InStr(ch, s) == ch \in Range(s)

\* string.ascii_lowercase : a..z
ascii_lowercase == [i \in 1..26 |-> 96 + i]

\* string.ascii_uppercase : A..Z
ascii_uppercase == [i \in 1..26 |-> 64 + i]

\* string.digits : 0..9
digits == [i \in 1..10 |-> 47 + i]

\* the ASCII letters and digits
Alphanumeric == Range(digits) \cup Range(ascii_uppercase) \cup Range(ascii_lowercase)

\* str.isalnum() of a one-character ASCII string
isalnum(c) == c \in Alphanumeric

\* "O0Il1"
AMBIGUOUS_CHARS == <<79, 48, 73, 108, 49>>

\* "!@#$%^&*()-_=+[{]}\\|;:'\",<.>/?`~"
SYMBOLS == <<33, 64, 35, 36, 37, 94, 38, 42, 40, 41, 45, 95, 61, 43, 91, 123,
             93, 125, 92, 124, 59, 58, 39, 34, 44, 60, 46, 62, 47, 63, 96, 126>>

\* without_ambiguous with the lowercase l left in
without_ambiguous_but_l(s) ==
    SelectSeq(s, LAMBDA ch : ch \notin {79, 48, 73, 49})

\* "".join(ch for ch in s if ch not in AMBIGUOUS_CHARS)
without_ambiguous(s) ==
    LET ambiguous == Range(AMBIGUOUS_CHARS)
    IN  SelectSeq(s, LAMBDA ch : ch \notin ambiguous)

\* KeyLess with the key lambda c: c
KeyLess_by_code_point(a, b) == a < b

\* the sort key of build_charset: lambda c: (c.isalnum()==False, c);
\* tuples compare lexicographically and False < True
KeyLess(a, b) ==
    LET ka == IF isalnum(a) = FALSE THEN 1 ELSE 0
        kb == IF isalnum(b) = FALSE THEN 1 ELSE 0
    IN  ka < kb \/ (ka = kb /\ a < b)

\* sorted(S, key=...) of a set S of characters: the keys of distinct
\* characters differ, so the result is the one sequence ordered by the key,
\* each character at the place the number of characters before it gives
sorted(S) ==
    LET placed == {<<Cardinality({y \in S : KeyLess(y, x)}) + 1, x>> : x \in S}
    IN  [i \in 1..Cardinality(S) |-> (CHOOSE p \in placed : p[1] = i)[2]] \o <<>>

build_charset(lower, upper, digs, syms, avoid) ==
    LET c1 == IF lower THEN ascii_lowercase ELSE <<>>
        c2 == IF upper THEN c1 \o ascii_uppercase ELSE c1
        c3 == IF digs THEN c2 \o digits ELSE c2
        c4 == IF syms THEN c3 \o SYMBOLS ELSE c3
        c5 == IF avoid THEN without_ambiguous(c4) ELSE c4
    IN  sorted(Range(c5))

---------------------------------------------------------------------------
(* Entropy estimate.  A float number of bits is the integer number of      *)
(* 1/Resolution bits: 28.0 is 28 * Resolution.                             *)

RECURSIVE Pow(_, _)
Pow(b, e) == IF e = 0 THEN 1 ELSE b * Pow(b, e - 1)

\* the whole part of the logarithm to base 2 of an integer m >= 1
RECURSIVE floor_log2(_)
floor_log2(m) == IF m < 2 THEN 0 ELSE 1 + floor_log2(m \div 2)

\* math.log2(n) for an integer n >= 1, rounded down to the resolution:
\* the q with 2^(q/Resolution) <= n < 2^((q+1)/Resolution)
log2(n) == floor_log2(Pow(n, Resolution))

\* calculate_entropy_bits with its arguments taken for one another
calculate_entropy_bits_swapped(charset_len, length) ==
    IF charset_len <= 0 \/ length <= 0
    THEN 0
    ELSE charset_len * log2(length)

calculate_entropy_bits(charset_len, length) ==
    IF charset_len <= 0 \/ length <= 0
    THEN 0
    ELSE length * log2(charset_len)

\* strength_label with each boundary in the lower band
strength_label_boundary_below(bits) ==
    IF bits <= 28 * Resolution THEN "Very Weak"
    ELSE IF bits <= 36 * Resolution THEN "Weak"
    ELSE IF bits <= 60 * Resolution THEN "Reasonable"
    ELSE IF bits <= 80 * Resolution THEN "Strong"
    ELSE "Very Strong"

strength_label(bits) ==
    IF bits < 28 * Resolution THEN "Very Weak"
    ELSE IF bits < 36 * Resolution THEN "Weak"
    ELSE IF bits < 60 * Resolution THEN "Reasonable"
    ELSE IF bits < 80 * Resolution THEN "Strong"
    ELSE "Very Strong"

---------------------------------------------------------------------------
(* The random source.  An operator that draws at random is the set of its  *)
(* possible results.                                                       *)

\* the random source's randbelow(n), a number of 0..n-1: any of them for
\* n <= MaxPick, and 0 alone for a larger n
randbelow(n) == IF n <= MaxPick THEN 0..(n - 1) ELSE {0}

\* secrets.choice(seq), seq non-empty: seq[randbelow(len(seq))]
secure_choice(seq) == {seq[j + 1] : j \in randbelow(Len(seq))}

\* one secure_choice of each pool of a list of pools, in order
RECURSIVE choices(_)
choices(pools) ==
    IF pools = <<>>
    THEN {<<>>}
    ELSE {<<c>> \o rest : c \in secure_choice(Head(pools)), rest \in choices(Tail(pools))}

\* swap written as two assignments: x[i] = x[j]; x[j] = x[i]
swap_in_two_steps(x, i, j) == [x EXCEPT ![i + 1] = x[j + 1]]

\* x[i], x[j] = x[j], x[i] (i, j count from 0)
swap(x, i, j) == [x EXCEPT ![i + 1] = x[j + 1], ![j + 1] = x[i + 1]]

\* random.shuffle's loop from index i down to 1:
\*   for i in reversed(range(1, len(x))): j = randbelow(i + 1); x[i], x[j] = x[j], x[i]
RECURSIVE shuffle_from(_, _)
shuffle_from(x, i) ==
    IF i < 1
    THEN {x}
    ELSE UNION {shuffle_from(swap(x, i, j), i - 1) : j \in randbelow(i + 1)}

\* shuffle leaving the list as it is
shuffle_left_in_place(x) == {x}

\* secrets.SystemRandom().shuffle(x)
shuffle(x) == shuffle_from(x, Len(x) - 1)

---------------------------------------------------------------------------
(* generate_single_password: the set of its possible outcomes, a returned  *)
(* password (err = "none") or a raised ValueError (err = its message).     *)

Return(pw) == [err |-> "none", pw |-> pw]
Raise(msg) == [err |-> msg, pw |-> <<>>]

ERR_EMPTY == "Character set is empty."
ERR_LENGTH == "Length must be at least 1."
ERR_SHORT == "Length is too short to include at least one from each required class."

\* if not charset
not_charset_is_none(charset) == FALSE
not_charset(charset) == charset = <<>>

\* if length < 1
length_below_zero(length) == length < 0
length_below_one(length) == length < 1

\* required_classes with the classes of an empty pool kept
required_classes_all(classes) == classes

\* [cls for cls in classes if cls[1]]: a class is <<name, chars>>
required_classes_of(classes) == SelectSeq(classes, LAMBDA cls : cls[2] # <<>>)

\* required_then_rest with remaining = length
required_then_length(length, charset, required_classes) ==
    choices([i \in 1..Len(required_classes) |-> required_classes[i][2]]
            \o [i \in 1..length |-> charset])

\* pw_chars before the shuffle: one char of each required class, then
\* length - len(pw_chars) chars of the charset
required_then_rest(length, charset, required_classes) ==
    choices([i \in 1..Len(required_classes) |-> required_classes[i][2]]
            \o [i \in 1..(length - Len(required_classes)) |-> charset])

\* classes is a list of (name, chars); None is the empty list (the code
\* only tests it for truth before using it)
generate_single_password(length, charset, req_each, classes) ==
    IF not_charset(charset) THEN {Raise(ERR_EMPTY)}
    ELSE IF length_below_one(length) THEN {Raise(ERR_LENGTH)}
    ELSE IF req_each /\ classes # <<>>
    THEN LET required_classes == required_classes_of(classes)
         IN  IF length < Len(required_classes)
             THEN {Raise(ERR_SHORT)}
             ELSE {Return(pw) :
                     pw \in UNION {shuffle(pw_chars) :
                         pw_chars \in required_then_rest(length, charset, required_classes)}}
    ELSE {Return(pw) : pw \in choices([i \in 1..length |-> charset])}

---------------------------------------------------------------------------
(* AdvancedPasswordGenerator: the form's state and its event handlers *)

\* create_variables: self.length_var = tk.IntVar(value=16)
DEFAULT_LENGTH == 16
\* create_variables: self.count_var = tk.IntVar(value=5)
DEFAULT_COUNT == 5
\* on_generate: if length < 4 or length > 256
MIN_LENGTH == 4
MAX_LENGTH == 256
\* on_generate: if count < 1 or count > 1000
MIN_COUNT == 1
MAX_COUNT == 1000

ERR_FORM_LENGTH == "Length must be between 4 and 256."
ERR_FORM_COUNT == "Count must be between 1 and 1000."
ERR_FORM_CHARSET == "No characters selected for password generation. Enable at least one class."

\* what the user may type into the Length and Count spinboxes
LengthChoices == {MIN_LENGTH - 1} \cup MIN_LENGTH..(MIN_LENGTH + ExtraLen) \cup {MAX_LENGTH + 1}
CountChoices == {MIN_COUNT - 1} \cup MIN_COUNT..MaxCount \cup {MAX_COUNT + 1}

\* a check box's state as a number, and back
bit(b) == IF b THEN 1 ELSE 0
ticked(n, k) == (n \div k) % 2 = 1

\* build_charset of each state of the five check boxes, computed once
charsets ==
    [n \in 1..32 |->
        build_charset(ticked(n - 1, 1), ticked(n - 1, 2), ticked(n - 1, 4),
                      ticked(n - 1, 8), ticked(n - 1, 16))] \o <<>>

\* the handlers' call build_charset(self.use_lower.get(), ..., self.avoid_ambiguous.get())
form_charset(lower, upper, digs, syms, avoid) ==
    charsets[1 + bit(lower) + 2 * bit(upper) + 4 * bit(digs) + 8 * bit(syms) + 16 * bit(avoid)]

\* the text of self.entropy_label, by its parts:
\* f"Entropy: {human_readable_bits(bits)} - {strength_label(bits)} (Charset size: {len(charset)})"
entropy_text(charset, len_value) ==
    LET length == IF len_value > 0 THEN len_value ELSE 0
        bits == calculate_entropy_bits(Len(charset), length)
    IN  [bits |-> bits, strength |-> strength_label(bits), size |-> Len(charset)]

\* selected_classes with the pools left unfiltered
selected_classes_unfiltered(lower, upper, digs, syms, avoid) ==
    LET k1 == IF lower THEN << <<"lower", ascii_lowercase>> >> ELSE <<>>
        k2 == IF upper THEN Append(k1, <<"upper", ascii_uppercase>>) ELSE k1
        k3 == IF digs THEN Append(k2, <<"digits", digits>>) ELSE k2
        k4 == IF syms THEN Append(k3, <<"symbols", SYMBOLS>>) ELSE k3
    IN  k4

\* on_generate's list of (name, chars) of the ticked classes
selected_classes(lower, upper, digs, syms, avoid) ==
    LET pool(chars) == IF avoid THEN without_ambiguous(chars) ELSE chars
        k1 == IF lower THEN << <<"lower", pool(ascii_lowercase)>> >> ELSE <<>>
        k2 == IF upper THEN Append(k1, <<"upper", pool(ascii_uppercase)>>) ELSE k1
        k3 == IF digs THEN Append(k2, <<"digits", pool(digits)>>) ELSE k2
        k4 == IF syms THEN Append(k3, <<"symbols", pool(SYMBOLS)>>) ELSE k3
    IN  k4

\* a run of on_generate's try block: the exception it ended with ("none":
\* it ended normally), the passwords generated and the number of calls of
\* generate_single_password made
Run(err, generated, calls) == [err |-> err, generated |-> generated, calls |-> calls]

\* for _ in range(count): pw = generate_single_password(...); generated.append(pw)
\* with outs the possible outcomes of one call
RECURSIVE generate_loop(_, _)
generate_loop(count, outs) ==
    IF count = 0
    THEN {Run("none", <<>>, 0)}
    ELSE UNION {IF r.err # "none"
                THEN {r}
                ELSE {IF o.err # "none"
                      THEN Run(o.err, r.generated, r.calls + 1)
                      ELSE Run("none", Append(r.generated, o.pw), r.calls + 1) : o \in outs}
                : r \in generate_loop(count - 1, outs)}

\* on_generate_runs with the length check: if length < 3 or length > 256
on_generate_runs_length_from_3(length, count, lower, upper, digs, syms, avoid, req_each) ==
    IF length < MIN_LENGTH - 1 \/ length > MAX_LENGTH THEN {Run(ERR_FORM_LENGTH, <<>>, 0)}
    ELSE IF count < MIN_COUNT \/ count > MAX_COUNT THEN {Run(ERR_FORM_COUNT, <<>>, 0)}
    ELSE LET charset == form_charset(lower, upper, digs, syms, avoid)
         IN  IF charset = <<>>
             THEN {Run(ERR_FORM_CHARSET, <<>>, 0)}
             ELSE generate_loop(count,
                      generate_single_password(length, charset, req_each,
                          selected_classes(lower, upper, digs, syms, avoid)))

\* the try block of on_generate up to the display
on_generate_runs(length, count, lower, upper, digs, syms, avoid, req_each) ==
    IF length < MIN_LENGTH \/ length > MAX_LENGTH THEN {Run(ERR_FORM_LENGTH, <<>>, 0)}
    ELSE IF count < MIN_COUNT \/ count > MAX_COUNT THEN {Run(ERR_FORM_COUNT, <<>>, 0)}
    ELSE LET charset == form_charset(lower, upper, digs, syms, avoid)
         IN  IF charset = <<>>
             THEN {Run(ERR_FORM_CHARSET, <<>>, 0)}
             ELSE generate_loop(count,
                      generate_single_password(length, charset, req_each,
                          selected_classes(lower, upper, digs, syms, avoid)))

\* displayed with pw_listbox.delete(0, tk.END) done before the try block
displayed_deleted_first(items, run) ==
    IF run.err = "none"
    THEN [i \in 1..Len(run.generated) |-> <<i, run.generated[i]>>]
    ELSE <<>>

\* self.pw_listbox after the run: pw_listbox.delete(0, tk.END) and one
\* item f"{i:02d}. {pw}" per password, or untouched when the run raised
displayed(items, run) ==
    IF run.err = "none"
    THEN [i \in 1..Len(run.generated) |-> <<i, run.generated[i]>>]
    ELSE items

Idle == [err |-> "none", calls |-> 0]

NoCall == [fn |-> "none", args |-> <<>>, err |-> "none", ret |-> <<>>]

Init ==
    /\ length_var = DEFAULT_LENGTH
    /\ count_var = DEFAULT_COUNT
    /\ use_lower = TRUE
    /\ use_upper = TRUE
    /\ use_digits = TRUE
    /\ use_symbols = TRUE
    /\ require_each = TRUE
    /\ avoid_ambiguous = TRUE
    /\ last_charset = form_charset(TRUE, TRUE, TRUE, TRUE, TRUE)
    /\ entropy_label = entropy_text(form_charset(TRUE, TRUE, TRUE, TRUE, TRUE), DEFAULT_LENGTH)
    /\ pw_listbox = <<>>
    /\ handled = Idle
    /\ call = NoCall

\* update_entropy with the form as it will be after the event
update_entropy ==
    LET charset == form_charset(use_lower', use_upper', use_digits', use_symbols',
                                avoid_ambiguous')
    IN  /\ entropy_label' = entropy_text(charset, length_var')
        /\ last_charset' = charset

\* the user edits the Length spinbox (it has no command)
SetLength ==
    \E n \in LengthChoices :
        /\ length_var' = n
        /\ handled' = Idle
        /\ UNCHANGED <<count_var, use_lower, use_upper, use_digits, use_symbols,
                       require_each, avoid_ambiguous, last_charset, entropy_label,
                       pw_listbox, call>>

\* the user edits the Count spinbox (it has no command)
SetCount ==
    \E n \in CountChoices :
        /\ count_var' = n
        /\ handled' = Idle
        /\ UNCHANGED <<length_var, use_lower, use_upper, use_digits, use_symbols,
                       require_each, avoid_ambiguous, last_charset, entropy_label,
                       pw_listbox, call>>

\* Checkbutton "Lowercase (a-z)", command=self.update_entropy
ToggleLower ==
    /\ use_lower' = ~use_lower
    /\ UNCHANGED <<length_var, count_var, use_upper, use_digits, use_symbols,
                   require_each, avoid_ambiguous, pw_listbox, call>>
    /\ update_entropy
    /\ handled' = Idle

\* Checkbutton "Uppercase (A-Z)", command=self.update_entropy
ToggleUpper ==
    /\ use_upper' = ~use_upper
    /\ UNCHANGED <<length_var, count_var, use_lower, use_digits, use_symbols,
                   require_each, avoid_ambiguous, pw_listbox, call>>
    /\ update_entropy
    /\ handled' = Idle

\* Checkbutton "Digits (0-9)", command=self.update_entropy
ToggleDigits ==
    /\ use_digits' = ~use_digits
    /\ UNCHANGED <<length_var, count_var, use_lower, use_upper, use_symbols,
                   require_each, avoid_ambiguous, pw_listbox, call>>
    /\ update_entropy
    /\ handled' = Idle

\* Checkbutton "Symbols (!@#$...)", command=self.update_entropy
ToggleSymbols ==
    /\ use_symbols' = ~use_symbols
    /\ UNCHANGED <<length_var, count_var, use_lower, use_upper, use_digits,
                   require_each, avoid_ambiguous, pw_listbox, call>>
    /\ update_entropy
    /\ handled' = Idle

\* Checkbutton "Avoid ambiguous characters", command=self.update_entropy
ToggleAvoidAmbiguous ==
    /\ avoid_ambiguous' = ~avoid_ambiguous
    /\ UNCHANGED <<length_var, count_var, use_lower, use_upper, use_digits,
                   use_symbols, require_each, pw_listbox, call>>
    /\ update_entropy
    /\ handled' = Idle

\* Checkbutton "Require at least one char from each selected class" (no command)
ToggleRequireEach ==
    /\ require_each' = ~require_each
    /\ handled' = Idle
    /\ UNCHANGED <<length_var, count_var, use_lower, use_upper, use_digits,
                   use_symbols, avoid_ambiguous, last_charset, entropy_label,
                   pw_listbox, call>>

\* the requests the model follows: a valid length or count is within the bounds
InBounds ==
    \/ length_var < MIN_LENGTH
    \/ length_var > MAX_LENGTH
    \/ /\ length_var <= MIN_LENGTH + ExtraLen
       /\ (count_var < MIN_COUNT \/ count_var > MAX_COUNT \/ count_var <= MaxCount)

\* Button "Generate"
on_generate ==
    /\ InBounds
    /\ \E run \in on_generate_runs(length_var, count_var, use_lower, use_upper,
                                   use_digits, use_symbols, avoid_ambiguous, require_each) :
          /\ pw_listbox' = displayed(pw_listbox, run)
          /\ handled' = [err |-> run.err, calls |-> run.calls]
          /\ UNCHANGED <<length_var, count_var, use_lower, use_upper, use_digits,
                         use_symbols, require_each, avoid_ambiguous, call>>
          /\ IF run.err = "none"
             THEN update_entropy
             ELSE UNCHANGED <<last_charset, entropy_label>>

\* Button "Clear"
on_clear ==
    /\ pw_listbox' = <<>>
    /\ handled' = Idle
    /\ UNCHANGED <<length_var, count_var, use_lower, use_upper, use_digits,
                   use_symbols, require_each, avoid_ambiguous, last_charset,
                   entropy_label, call>>

Next ==
    \/ SetLength
    \/ SetCount
    \/ ToggleLower
    \/ ToggleUpper
    \/ ToggleDigits
    \/ ToggleSymbols
    \/ ToggleAvoidAmbiguous
    \/ ToggleRequireEach
    \/ on_generate
    \/ on_clear

Spec == Init /\ [][Next]_vars

---------------------------------------------------------------------------
(* SpecCore: one call at a time of a module-level function, its arguments  *)
(* drawn from bounded sets; call holds the arguments and the result until  *)
(* the caller takes it.                                                    *)

\* the characters of the caller-supplied alphabets: "a", "B"
CoreChars == {97, 66}

\* the strings over a set of characters up to a length
Strings(chars, maxlen) == UNION {[1..n -> chars] : n \in 0..maxlen}

\* the caller-supplied pools of a class: "", "a", "B", "aB", "7"
CorePools == {<<>>, <<97>>, <<66>>, <<97, 66>>, <<55>>}

\* the caller-supplied classes lists: None or [] is <<>>
CoreClasses == UNION {[1..n -> {<<"class", chars>> : chars \in CorePools}] : n \in 0..MaxClasses}

Called(fn, args, err, ret) == [fn |-> fn, args |-> args, err |-> err, ret |-> ret]

CallBuildCharset ==
    /\ call = NoCall
    /\ \E lower, upper, digs, syms, avoid \in BOOLEAN :
          call' = Called("build_charset", <<lower, upper, digs, syms, avoid>>, "none",
                         build_charset(lower, upper, digs, syms, avoid))
    /\ UNCHANGED gui_vars

CallEntropy ==
    /\ call = NoCall
    /\ \E charset_len, length \in (-1)..MaxSize :
          call' = Called("calculate_entropy_bits", <<charset_len, length>>, "none",
                         calculate_entropy_bits(charset_len, length))
    /\ UNCHANGED gui_vars

CallStrength ==
    /\ call = NoCall
    /\ \E bits \in (-Resolution)..(MaxBits * Resolution) :
          call' = Called("strength_label", <<bits>>, "none", strength_label(bits))
    /\ UNCHANGED gui_vars

\* generate_single_password on any alphabet and classes
CallGenerate ==
    /\ call = NoCall
    /\ \E length \in (-1)..MaxLen, charset \in Strings(CoreChars, MaxAlpha),
          req_each \in BOOLEAN, classes \in CoreClasses :
          \E out \in generate_single_password(length, charset, req_each, classes) :
              call' = Called("generate_single_password",
                             <<length, charset, req_each, classes>>, out.err, out.pw)
    /\ UNCHANGED gui_vars

\* generate_single_password on the alphabet and the classes on_generate
\* builds of the check boxes, at the lengths up to the form's least ones,
\* at 8 and at the form's default length
CallGenerateOfForm ==
    /\ call = NoCall
    /\ \E length \in 0..(MIN_LENGTH + ExtraLen) \cup {8, DEFAULT_LENGTH}, req_each \in BOOLEAN,
          lower, upper, digs, syms, avoid \in BOOLEAN :
          LET charset == form_charset(lower, upper, digs, syms, avoid)
              classes == selected_classes(lower, upper, digs, syms, avoid)
          IN  \E out \in generate_single_password(length, charset, req_each, classes) :
                  call' = Called("generate_single_password",
                                 <<length, charset, req_each, classes>>, out.err, out.pw)
    /\ UNCHANGED gui_vars

\* the caller takes the result
Returned ==
    /\ call # NoCall
    /\ call' = NoCall
    /\ UNCHANGED gui_vars

NextCore ==
    \/ CallBuildCharset
    \/ CallEntropy
    \/ CallStrength
    \/ CallGenerate
    \/ CallGenerateOfForm
    \/ Returned

SpecCore == Init /\ [][NextCore]_vars

---------------------------------------------------------------------------
(* Properties of generate_single_password (SpecCore) *)

\* the arguments and the result of a call of generate_single_password
GenCall == call.fn = "generate_single_password"
GenLength == call.args[1]
GenCharset == call.args[2]
GenRequireEach == call.args[3]
GenClasses == call.args[4]
GenReturned == GenCall /\ call.err = "none"

\* the places of classes whose pool is not empty
NonEmptyClasses == {i \in 1..Len(GenClasses) : Len(GenClasses[i][2]) > 0}

\* every pool of classes is made of characters of the alphabet
PoolsWithinCharset ==
    \A i \in 1..Len(GenClasses) : Range(GenClasses[i][2]) \subseteq Range(GenCharset)

\* C1 as claimed: whatever require_each and classes are, a returned password
\* has exactly `length` characters, each one a member of the alphabet.
C1_LengthAndAlphabet_AsClaimed ==
    GenReturned =>
        /\ Len(call.ret) = GenLength
        /\ Range(call.ret) \subseteq Range(GenCharset)

\* C1 amended: a returned password has exactly `length` characters, each one
\* a member of the alphabet or, when require_each is true, of the pool of a
\* class of classes; so when every pool of classes is within the alphabet,
\* every character is a member of the alphabet.
C1_LengthAndAlphabet ==
    GenReturned =>
        /\ Len(call.ret) = GenLength
        /\ \A ch \in Range(call.ret) :
              \/ ch \in Range(GenCharset)
              \/ GenRequireEach /\ \E i \in NonEmptyClasses : ch \in Range(GenClasses[i][2])
        /\ PoolsWithinCharset => Range(call.ret) \subseteq Range(GenCharset)

\* C1's case: a password of the longest length returned under require_each
\* with a required class within the alphabet and characters left to draw
C1_Witness ==
    /\ GenReturned
    /\ GenRequireEach
    /\ PoolsWithinCharset
    /\ NonEmptyClasses # {}
    /\ Cardinality(NonEmptyClasses) < GenLength
    /\ GenLength = MaxLen

\* C2: when require_each is true, a returned password holds a character of
\* the pool of every class of classes whose pool is not empty; with the four
\* classes ticked, no exclusion and length 8 it holds a lowercase letter, an
\* uppercase letter, a digit and a symbol, and has 8 characters.
C2_EveryRequiredClass ==
    (GenReturned /\ GenRequireEach) =>
        /\ \A i \in NonEmptyClasses : Range(call.ret) \cap Range(GenClasses[i][2]) # {}
        /\ ( /\ GenLength = 8
             /\ GenCharset = build_charset(TRUE, TRUE, TRUE, TRUE, FALSE)
             /\ GenClasses = selected_classes(TRUE, TRUE, TRUE, TRUE, FALSE) )
           => /\ Len(call.ret) = 8
              /\ \E ch \in Range(call.ret) : ch \in 97..122
              /\ \E ch \in Range(call.ret) : ch \in 65..90
              /\ \E ch \in Range(call.ret) : ch \in 48..57
              /\ \E ch \in Range(call.ret) : ch \in Range(SYMBOLS)

\* C2's case: the password of length 8 of the four classes, no exclusion
C2_Witness ==
    /\ GenReturned
    /\ GenRequireEach
    /\ GenLength = 8
    /\ GenCharset = build_charset(TRUE, TRUE, TRUE, TRUE, FALSE)
    /\ GenClasses = selected_classes(TRUE, TRUE, TRUE, TRUE, FALSE)

\* C5: build_charset with no class selected returns the empty alphabet,
\* with or without exclusion, and generate_single_password on an empty
\* alphabet raises the empty-alphabet error whatever the other arguments,
\* returning no password.
C5_EmptyAlphabet ==
    /\ ( /\ call.fn = "build_charset"
         /\ ~call.args[1] /\ ~call.args[2] /\ ~call.args[3] /\ ~call.args[4] )
       => call.ret = <<>>
    /\ (GenCall /\ GenCharset = <<>>) => call.err = ERR_EMPTY

\* C5's case: the empty alphabet with a length and classes that would pass
C5_Witness ==
    /\ GenCall
    /\ GenCharset = <<>>
    /\ GenLength >= 1
    /\ GenRequireEach
    /\ NonEmptyClasses # {}
    /\ call.err = ERR_EMPTY

\* C6: on a non-empty alphabet, a length below 1 raises the invalid-length
\* error whatever require_each and classes are; no string is returned.
C6_InvalidLength ==
    (GenCall /\ GenCharset # <<>> /\ GenLength < 1) => call.err = ERR_LENGTH

\* C6's case: length 0 with require_each and classes whose pools are empty
C6_Witness ==
    /\ GenCall
    /\ GenCharset # <<>>
    /\ GenLength = 0
    /\ GenRequireEach
    /\ GenClasses # <<>>
    /\ NonEmptyClasses = {}
    /\ call.err = ERR_LENGTH

\* C7: on a non-empty alphabet, with length >= 1, require_each and a
\* non-empty classes list, the length-too-short error is raised exactly when
\* length is below the number of classes with a non-empty pool, and a
\* password is returned otherwise.
C7_LengthTooShort ==
    (GenCall /\ GenCharset # <<>> /\ GenLength >= 1 /\ GenRequireEach /\ GenClasses # <<>>) =>
        /\ call.err = ERR_SHORT <=> GenLength < Cardinality(NonEmptyClasses)
        /\ GenLength >= Cardinality(NonEmptyClasses) => call.err = "none"

\* C7's case: a class with an empty pool does not count: a password is
\* returned although classes is longer than the password
C7_Witness ==
    /\ GenReturned
    /\ GenRequireEach
    /\ Len(GenClasses) > GenLength
    /\ Cardinality(NonEmptyClasses) = GenLength

\* the orderings of the characters of a string
Orderings(s) == {[i \in 1..Len(s) |-> s[p[i]]] : p \in Permutations(1..Len(s))}

\* the random source of the model draws every number for this call: the
\* alphabet, the pools and the list to shuffle are no longer than MaxPick
DrawsAll ==
    /\ Len(GenCharset) <= MaxPick
    /\ GenLength <= MaxPick
    /\ \A i \in 1..Len(GenClasses) : Len(GenClasses[i][2]) <= MaxPick

\* the passwords generate_single_password can return on the arguments of the call
GenOutputs ==
    {o.pw : o \in {x \in generate_single_password(GenLength, GenCharset,
                                                  GenRequireEach, GenClasses) :
                       x.err = "none"}}

\* the strings of `length` characters of the alphabet
GenStrings == [1..GenLength -> Range(GenCharset)]

\* s holds a character of the pool of every class with a non-empty pool
OneOfEachClass(s) ==
    \A i \in NonEmptyClasses : Range(s) \cap Range(GenClasses[i][2]) # {}

\* s holds, for every class with a non-empty pool, a character of its pool
\* at a place of its own
OneOfEachClassApart(s) ==
    \E place \in [NonEmptyClasses -> 1..Len(s)] :
        /\ \A i, j \in NonEmptyClasses : i # j => place[i] # place[j]
        /\ \A i \in NonEmptyClasses : s[place[i]] \in Range(GenClasses[i][2])

\* no character is in the pools of two classes
PoolsDisjoint ==
    \A i, j \in 1..Len(GenClasses) :
        i # j => Range(GenClasses[i][2]) \cap Range(GenClasses[j][2]) = {}

\* the calls C11 is about: require_each, a class with a non-empty pool, the
\* pools within the alphabet, and a length that passes the checks
ShuffledCall ==
    /\ GenCall
    /\ GenRequireEach
    /\ GenCharset # <<>>
    /\ NonEmptyClasses # {}
    /\ GenLength >= Cardinality(NonEmptyClasses)
    /\ PoolsWithinCharset
    /\ DrawsAll

\* C11 as claimed: with require_each, a non-empty R and pools within the
\* alphabet, the passwords that can be returned are exactly the strings of
\* `length` characters of the alphabet that hold a character of every class
\* of R.
C11_Shuffled_AsClaimed ==
    ShuffledCall => GenOutputs = {s \in GenStrings : OneOfEachClass(s)}

\* C11 amended: with require_each, a non-empty R and pools within the
\* alphabet, every ordering of a returned password can be returned too, and
\* the passwords that can be returned are exactly the strings of `length`
\* characters of the alphabet that hold a character of every class of R,
\* each at a place of its own; when no two pools share a character these are
\* the strings that hold a character of every class of R.
C11_Shuffled ==
    ShuffledCall =>
        /\ call.err = "none"
        /\ Orderings(call.ret) \subseteq GenOutputs
        /\ GenOutputs = {s \in GenStrings : OneOfEachClassApart(s)}
        /\ PoolsDisjoint => GenOutputs = {s \in GenStrings : OneOfEachClass(s)}

\* C11's case: a password of the longest length of two classes that share
\* no character, its first place not taken by the first class
C11_Witness ==
    /\ ShuffledCall
    /\ PoolsDisjoint
    /\ Cardinality(NonEmptyClasses) = 2
    /\ GenLength = MaxLen
    /\ \E i \in NonEmptyClasses :
          /\ \A j \in NonEmptyClasses : i <= j
          /\ call.ret[1] \notin Range(GenClasses[i][2])

---------------------------------------------------------------------------
(* Properties of build_charset (SpecCore) *)

CharsetCall == call.fn = "build_charset"

\* the pools of the classes selected by the first four arguments
SelectedPools ==
    (IF call.args[1] THEN {ascii_lowercase} ELSE {})
    \cup (IF call.args[2] THEN {ascii_uppercase} ELSE {})
    \cup (IF call.args[3] THEN {digits} ELSE {})
    \cup (IF call.args[4] THEN {SYMBOLS} ELSE {})

\* a letter or a digit, by its code point
LetterOrDigit(c) == c \in 48..57 \/ c \in 65..90 \/ c \in 97..122

\* C3: for each of the 16 selections of classes, the alphabet returned with
\* the exclusion flag set holds none of O, 0, I, l, 1, and the alphabet
\* returned without it holds every character of every selected class.
C3_AmbiguousExcluded ==
    CharsetCall =>
        /\ call.args[5] => Range(call.ret) \cap {79, 48, 73, 108, 49} = {}
        /\ ~call.args[5] => \A pool \in SelectedPools : Range(pool) \subseteq Range(call.ret)

\* C3's case: the four classes with the exclusion flag set
C3_Witness ==
    /\ CharsetCall
    /\ call.args = <<TRUE, TRUE, TRUE, TRUE, TRUE>>
    /\ Len(call.ret) > 0

\* C4: the alphabet returned by build_charset repeats no character and is
\* ordered with the letters and digits first, in ascending code-point order,
\* then the other characters in ascending code-point order; so it is the one
\* sequence its set of characters allows, the same at every call.
C4_OrderedNoRepeat ==
    CharsetCall =>
        \A i, j \in 1..Len(call.ret) :
            i < j =>
                /\ call.ret[i] # call.ret[j]
                /\ LetterOrDigit(call.ret[j]) => LetterOrDigit(call.ret[i])
                /\ LetterOrDigit(call.ret[i]) = LetterOrDigit(call.ret[j])
                       => call.ret[i] < call.ret[j]

\* C4's case: an alphabet of digits, letters and symbols, whose symbols
\* below "0" come after "z"
C4_Witness ==
    /\ CharsetCall
    /\ call.args[1] /\ call.args[3] /\ call.args[4]
    /\ \E i, j \in 1..Len(call.ret) : i < j /\ call.ret[i] = 122 /\ call.ret[j] = 33

\* the characters of the pools of a list of classes
PoolChars(classes) == UNION {Range(classes[i][2]) : i \in 1..Len(classes)}

\* C12: for each of the 32 combinations of selectors and exclusion flag, the
\* characters of the alphabet build_charset returns are those of the pools
\* on_generate builds of the same check boxes, each pool filtered on its
\* own; so when generate_single_password is given the alphabet and the
\* classes of the same check boxes, every pool is within the alphabet.
C12_AlphabetIsUnionOfPools ==
    /\ CharsetCall =>
          LET classes == selected_classes(call.args[1], call.args[2], call.args[3],
                                          call.args[4], call.args[5])
          IN  /\ Range(call.ret) = PoolChars(classes)
              /\ \A i \in 1..Len(classes) : Range(classes[i][2]) \subseteq Range(call.ret)
    /\ GenCall =>
          \A lower, upper, digs, syms, avoid \in BOOLEAN :
              ( /\ GenClasses = selected_classes(lower, upper, digs, syms, avoid)
                /\ GenCharset = build_charset(lower, upper, digs, syms, avoid) )
              => /\ PoolsWithinCharset
                 /\ Range(GenCharset) = PoolChars(GenClasses)

\* C12's case: a password returned of the alphabet and the classes of
\* letters and digits with the exclusion flag set, the pool of digits
\* filtered to "23456789"
C12_Witness ==
    /\ GenReturned
    /\ GenRequireEach
    /\ GenCharset = build_charset(TRUE, TRUE, TRUE, FALSE, TRUE)
    /\ GenClasses = selected_classes(TRUE, TRUE, TRUE, FALSE, TRUE)
    /\ GenClasses[3][2] = <<50, 51, 52, 53, 54, 55, 56, 57>>

---------------------------------------------------------------------------
(* Properties of the entropy estimate (SpecCore) *)

StrengthCall == call.fn = "strength_label"
EntropyCall == call.fn = "calculate_entropy_bits"

\* the labels in ascending order
LabelRank(label) ==
    CASE label = "Very Weak" -> 1
      [] label = "Weak" -> 2
      [] label = "Reasonable" -> 3
      [] label = "Strong" -> 4
      [] label = "Very Strong" -> 5

\* the band of a number of bits given in 1/Resolution bits
Band(bits) ==
    CASE bits < 28 * Resolution -> "Very Weak"
      [] 28 * Resolution <= bits /\ bits < 36 * Resolution -> "Weak"
      [] 36 * Resolution <= bits /\ bits < 60 * Resolution -> "Reasonable"
      [] 60 * Resolution <= bits /\ bits < 80 * Resolution -> "Strong"
      [] 80 * Resolution <= bits -> "Very Strong"

\* C8: strength_label gives every number of bits the label of its band,
\* below 28, 28 to below 36, 36 to below 60, 60 to below 80, and 80 or more,
\* each boundary in the higher band, and fewer bits never get a higher label.
C8_StrengthBands ==
    StrengthCall =>
        /\ call.ret = Band(call.args[1])
        /\ \A fewer \in (-Resolution)..call.args[1] :
              LabelRank(strength_label(fewer)) <= LabelRank(call.ret)

\* C8's case: exactly 28 bits is "Weak"
C8_Witness ==
    /\ StrengthCall
    /\ call.args[1] = 28 * Resolution
    /\ call.ret = "Weak"

\* C9: calculate_entropy_bits returns 0 when the alphabet size or the length
\* is 0 or less, and length * log2(alphabet size) otherwise: for a size 2^k
\* exactly length * k (10 for size 2 and length 10), and in general length
\* times the log2 of the size at the resolution of the model.
C9_EntropyBits ==
    EntropyCall =>
        LET size == call.args[1]
            length == call.args[2]
        IN  /\ (size <= 0 \/ length <= 0) => call.ret = 0
            /\ (size > 0 /\ length > 0) =>
                  /\ \A k \in 0..6 : size = Pow(2, k) => call.ret = length * k * Resolution
                  /\ \E q \in 0..(7 * Resolution) :
                        /\ call.ret = length * q
                        /\ Pow(2, q) <= Pow(size, Resolution)
                        /\ Pow(size, Resolution) < Pow(2, q + 1)

\* C9's case: size 2 and length 10 give 10 bits
C9_Witness ==
    /\ EntropyCall
    /\ call.args = <<2, 10>>
    /\ call.ret = 10 * Resolution

---------------------------------------------------------------------------
(* Properties of the form (Spec) *)

\* C10: a request that fails, for the count, the length, the empty alphabet
\* or a failure of generate_single_password, leaves the displayed list as it
\* was, and a request refused by the form's own checks has called
\* generate_single_password no time.
C10_NoPartialBatch ==
    [][ /\ handled'.err # "none" => pw_listbox' = pw_listbox
        /\ handled'.err \in {ERR_FORM_LENGTH, ERR_FORM_COUNT, ERR_FORM_CHARSET}
              => handled'.calls = 0 ]_vars

\* C10's case: a request refused for its count with passwords on display
C10_Witness ==
    /\ handled.err = ERR_FORM_COUNT
    /\ pw_listbox # <<>>

\* the form passes on_generate's own checks: the length and the count are
\* in range and a class is ticked
FormValid ==
    /\ MIN_LENGTH <= length_var /\ length_var <= MAX_LENGTH
    /\ MIN_COUNT <= count_var /\ count_var <= MAX_COUNT
    /\ (use_lower \/ use_upper \/ use_digits \/ use_symbols)

\* the classes on_generate builds of the check boxes as they are
FormClasses ==
    selected_classes(use_lower, use_upper, use_digits, use_symbols, avoid_ambiguous)

\* C13: no request (a step that leaves handled other than Idle) ends with
\* the empty-alphabet, invalid-length or length-too-short error of
\* generate_single_password; at a request with a class ticked the pool of
\* every ticked class and the alphabet are non-empty, and the classes are at
\* most 4, the least length of the form; and a request on a form that passes
\* on_generate's checks ends normally after `count` calls, the list then
\* holding `count` entries numbered 1..count, each a password of `length`
\* characters.
C13_GenerationCannotFail ==
    [][ handled' # Idle =>
          /\ handled'.err \notin {ERR_EMPTY, ERR_LENGTH, ERR_SHORT}
          /\ (use_lower \/ use_upper \/ use_digits \/ use_symbols) =>
                /\ \A i \in 1..Len(FormClasses) : FormClasses[i][2] # <<>>
                /\ form_charset(use_lower, use_upper, use_digits, use_symbols,
                                avoid_ambiguous) # <<>>
                /\ Len(FormClasses) <= 4
                /\ 4 <= MIN_LENGTH
          /\ FormValid =>
                /\ handled'.err = "none"
                /\ handled'.calls = count_var
                /\ Len(pw_listbox') = count_var
                /\ \A i \in 1..Len(pw_listbox') :
                      /\ pw_listbox'[i][1] = i
                      /\ Len(pw_listbox'[i][2]) = length_var ]_vars

\* C13's case: the most passwords of a request on display, generated of
\* the four classes with the exclusion flag set and one of each required,
\* at the least length of the form
C13_Witness ==
    /\ handled.err = "none"
    /\ handled.calls = MaxCount
    /\ Len(pw_listbox) = MaxCount
    /\ length_var = MIN_LENGTH
    /\ use_lower /\ use_upper /\ use_digits /\ use_symbols
    /\ avoid_ambiguous
    /\ require_each

=============================================================================
